---- MODULE Spec2Model ----
(***************************************************************************)
(* Model of wizbot's main.py: a coordinator loop (main) that binds a game  *)
(* controller and a Sabertooth serial link, and three daemon threads: the  *)
(* serial log reader, the periodic motor-speed sender and the controller   *)
(* event loop.  Statements that read or write state shared between        *)
(* threads are separate steps, so that their interleavings are explored:   *)
(* in send_packet the test of emergency_stop, ser.write and ser.flush are  *)
(* three steps.  The device, the serial port and SIGINT are the            *)
(* environment: events, unplugging, I/O errors and signals happen at any   *)
(* time.  When main() returns or dies, the process and its daemon threads  *)
(* end and no further step is taken.                                       *)
(***************************************************************************)
EXTENDS Integers, Sequences, FiniteSets, TLC

\* ------------------------------------------------- configuration, ecodes
SABERTOOTH_ADDRESS == 128
DEAD_ZONE == 10

EV_SYN == 0
EV_KEY == 1
EV_ABS == 3
ABS_X == 0
ABS_Y == 1
ABS_RY == 4
KEY_MENU == 139
BTN_SOUTH == 304
EV_REL == 2
EV_MSC == 4
MSC_SCAN == 4
EV_FF == 21
FF_RUMBLE == 80

\* Raw axis values delivered by the controller in this model.
RawVals == {0, 32767, 65535}

\* Largest raw value of an axis (unsigned 16 bit).
RawMax == 65535

Event(t, c, v) == [type |-> t, code |-> c, value |-> v]

NoEvent == Event(-1, -1, -1)

Events ==
    {Event(EV_ABS, c, v) : c \in {ABS_Y, ABS_RY}, v \in RawVals}
    \cup {Event(EV_KEY, KEY_MENU, 1), Event(EV_KEY, KEY_MENU, 0)}
    \cup {Event(EV_SYN, 0, 0), Event(EV_KEY, BTN_SOUTH, 1), Event(EV_ABS, ABS_X, 0)}
    \cup {Event(EV_MSC, MSC_SCAN, 1), Event(EV_FF, FF_RUMBLE, 1), Event(EV_REL, 0, 1)}

\* ------------------------------------------------------- pure functions
Abs(x) == IF x < 0 THEN -x ELSE x

\* Python's int(): truncation toward zero.
TruncDiv(n, d) == IF n >= 0 THEN n \div d ELSE -((-n) \div d)

\* the scaling with floor division in place of int()
ScaleAxis_Floor(value) == ((value - 32767) * 126) \div 32767

\* main.py:119   int(((event.value - 32767) / 32767) * 126)
ScaleAxis(value) == TruncDiv((value - 32767) * 126, 32767)

\* main.py:119-122   scaling followed by the dead zone
AxisSpeed(value) ==
    IF Abs(ScaleAxis(value)) < DEAD_ZONE THEN 0 ELSE ScaleAxis(value)

\* main.py:124   ABS_Y drives motor_speeds[0], ABS_RY motor_speeds[1]
AxisIndex(code) == IF code = ABS_Y THEN 1 ELSE 2

\* send_packet without the reduced-power clamp
NightClamp_Off(night, value) == value

\* main.py:82-83  NIGHT_MODE clamp
NightClamp(night, value) == IF night /\ value > 20 THEN 20 ELSE value

\* main.py:86
Checksum(address, command, value) == (address + command + value) % 128

\* send_packet clamping the value only after the checksum was computed
MakePacket_ClampAfterChecksum(night, address, command, value) ==
    <<address, command, NightClamp(night, value),
      Checksum(address, command, value)>>

\* main.py:82-91  the 4-byte packet send_packet builds
MakePacket(night, address, command, value) ==
    <<address, command, NightClamp(night, value),
      Checksum(address, command, NightClamp(night, value))>>

\* send_motor_speeds with the left motor's two command codes exchanged
MotorCommand_LeftExchanged(i, speed) ==
    IF i = 2 THEN (IF speed >= 0 THEN 0 ELSE 1)
             ELSE (IF speed >= 0 THEN 4 ELSE 5)

\* main.py:151-154  command code of motor i (1 = left, 2 = right) for a speed
MotorCommand(i, speed) ==
    IF i = 2 THEN (IF speed >= 0 THEN 0 ELSE 1)
             ELSE (IF speed >= 0 THEN 5 ELSE 4)

\* The motor a command code addresses (1 = left, 2 = right).
MotorOf(command) == IF command \in {0, 1} THEN 2 ELSE 1

\* emergency_shutoff stopping the same motor twice
StopCommand_SameMotor(k) == 0

\* main.py:76-77  the two stop packets of emergency_shutoff, in order
StopCommand(k) == IF k = 1 THEN 0 ELSE 5

\* --------------------------------------------------------------- state
VARIABLES
    NIGHT_MODE,          \* config flag, fixed at start
    mainPc,              \* position of main()
    controller,          \* main's `controller`: "None" or "dev"
    ser,                 \* main's `ser`: "None" or "port"
    motor_speeds,        \* <<left, right>>
    communication_stop,  \* threading.Event
    emergency_stop,      \* threading.Event
    exitStatus,          \* -1 while the process runs, else its exit status
    grabbed,             \* the process holds the exclusive grab
    ctrlPresent,         \* a device named CONTROLLER_NAME exists
    devOK,               \* the device behind `controller` still exists
    serOpen,             \* is_open of the Serial object last created
    rdPc,                \* sabertooth_serial_reader thread
    txPc, txI, txPkt,    \* motor_speed_sender thread
    evPc, evEvent, evK, evFrom, evSent, evResults, evLast,
                         \* process_controller_events thread
    wireMag              \* magnitude byte of the last packet written to
                         \* the wire, -1 before the first write

mainVars == <<mainPc, controller, ser, exitStatus, grabbed, serOpen>>
envVars == <<NIGHT_MODE, ctrlPresent, devOK>>
rdVars == <<rdPc>>
txVars == <<txPc, txI, txPkt>>
evVars == <<evPc, evEvent, evK, evFrom, evSent, evResults, evLast>>
sharedVars == <<motor_speeds, communication_stop, emergency_stop, wireMag>>
vars == <<mainVars, envVars, rdVars, txVars, evVars, sharedVars>>

NoPacket == <<0, 0, 0, 0>>

Running == exitStatus = -1

\* main.py:220-224 and the state before any thread exists
Init ==
    /\ NIGHT_MODE \in BOOLEAN
    /\ mainPc = "top"
    /\ controller = "None"
    /\ ser = "None"
    /\ motor_speeds = <<0, 0>>
    /\ communication_stop = FALSE
    /\ emergency_stop = FALSE
    /\ exitStatus = -1
    /\ grabbed = FALSE
    /\ ctrlPresent \in BOOLEAN
    /\ devOK = FALSE
    /\ serOpen = FALSE
    /\ rdPc = "idle"
    /\ txPc = "idle"
    /\ txI = 1
    /\ txPkt = NoPacket
    /\ evPc = "idle"
    /\ evEvent = NoEvent
    /\ evK = 1
    /\ evFrom = "none"
    /\ evSent = <<>>
    /\ evResults = <<>>
    /\ evLast = "none"
    /\ wireMag = -1

\* threading.Thread.is_alive() of the event thread
EventThreadAlive == evPc \notin {"idle", "done", "crashed"}

\* --------------------------------------------------------- environment
\* The controller is unplugged: device node and every handle to it die.
Unplug ==
    /\ Running
    /\ ctrlPresent
    /\ ctrlPresent' = FALSE
    /\ devOK' = FALSE
    /\ UNCHANGED <<NIGHT_MODE, mainVars, rdVars, txVars, evVars, sharedVars>>

\* The controller is plugged in again (as a new device node).
Replug ==
    /\ Running
    /\ ~ctrlPresent
    /\ ctrlPresent' = TRUE
    /\ UNCHANGED <<NIGHT_MODE, devOK, mainVars, rdVars, txVars, evVars, sharedVars>>

\* --------------------------------------------------- coordinator: main()
\* The statements inside the try block (main.py:227-272), where a
\* KeyboardInterrupt is caught by the handler at main.py:274.
TryPcs == {"top", "grab", "wait1", "conn", "start_rd", "start_tx",
           "start_ev", "poll", "ungrab"}

\* The process ends: the interpreter exits and its daemon threads with it.
Exit(status) ==
    /\ mainPc' = "exited"
    /\ exitStatus' = status

\* a failed lookup followed by the next loop iteration at once
AfterFailedLookup_NoWait == "top"

\* main.py:235-237, 255-257  after a failed lookup: warning,
\* communication_stop.wait(1), continue
AfterFailedLookup == "wait1"

\* main.py:228-237  if not controller: controller = find_controller()
FindController ==
    /\ Running
    /\ mainPc = "top"
    /\ IF controller = "None"
       THEN IF ctrlPresent
            THEN /\ controller' = "dev"
                 /\ devOK' = TRUE
                 /\ mainPc' = "grab"
            ELSE /\ mainPc' = AfterFailedLookup
                 /\ UNCHANGED <<controller, devOK>>
       ELSE /\ mainPc' = "conn"
            /\ UNCHANGED <<controller, devOK>>
    /\ UNCHANGED <<NIGHT_MODE, ctrlPresent, ser, exitStatus, grabbed, serOpen, rdVars, txVars, evVars, sharedVars>>

\* main.py:233  controller.grab(); an OSError (device gone, or grabbed by
\* another process) leaves the try block for the handler at main.py:282.
GrabController ==
    /\ Running
    /\ mainPc = "grab"
    /\ \/ /\ devOK
          /\ grabbed' = TRUE
          /\ mainPc' = "conn"
       \/ /\ mainPc' = "oserr"
          /\ UNCHANGED grabbed
    /\ UNCHANGED <<controller, ser, exitStatus, serOpen, envVars,
                   rdVars, txVars, evVars, sharedVars>>

\* main.py:236-237 and 256-257  communication_stop.wait(1); continue
BackoffWait1 ==
    /\ Running
    /\ mainPc = "wait1"
    /\ mainPc' = "top"
    /\ UNCHANGED <<controller, ser, exitStatus, grabbed, serOpen,
                   envVars, rdVars, txVars, evVars, sharedVars>>

\* main.py:239-257 with connect_sabertooth (main.py:197-204): a port that is
\* missing or fails to open yields None, a warning and the 1 s wait.
ConnectSabertooth ==
    /\ Running
    /\ mainPc = "conn"
    /\ IF ser = "None"
       THEN \/ /\ ser' = "port"
               /\ serOpen' = TRUE
               /\ mainPc' = "start_rd"
            \/ /\ mainPc' = AfterFailedLookup
               /\ UNCHANGED <<ser, serOpen>>
       ELSE /\ mainPc' = "start_ev"
            /\ UNCHANGED <<ser, serOpen>>
    /\ UNCHANGED <<controller, exitStatus, grabbed, envVars, rdVars, txVars,
                   evVars, sharedVars>>

\* main.py:243-246  sabertooth_log_thread.start(); start() can raise
\* RuntimeError, which only the handler at main.py:289 catches.
StartReader ==
    /\ Running
    /\ mainPc = "start_rd"
    /\ \/ /\ rdPc' = "run"
          /\ mainPc' = "start_tx"
       \/ /\ mainPc' = "unh"
          /\ UNCHANGED rdPc
    /\ UNCHANGED <<controller, ser, exitStatus, grabbed, serOpen,
                   envVars, txVars, evVars, sharedVars>>

\* main.py:248-253  motor_speed_sender_thread.start()
StartSender ==
    /\ Running
    /\ mainPc = "start_tx"
    /\ \/ /\ txPc' = "loop"
          /\ mainPc' = "start_ev"
       \/ /\ mainPc' = "unh"
          /\ UNCHANGED txPc
    /\ UNCHANGED <<controller, ser, exitStatus, grabbed, serOpen,
                   envVars, rdVars, txI, txPkt, evVars, sharedVars>>

\* main.py:259-264  event_thread.start().  `controller and ser` is true
\* whenever this line is reached, so the else branch (main.py:268) is dead.
StartEventThread ==
    /\ Running
    /\ mainPc = "start_ev"
    /\ \/ /\ evPc' = "start"
          /\ evEvent' = NoEvent
          /\ evK' = 1
          /\ evFrom' = "none"
          /\ evSent' = <<>>
          /\ evResults' = <<>>
          /\ evLast' = "none"
          /\ mainPc' = "poll"
       \/ /\ mainPc' = "unh"
          /\ UNCHANGED evVars
    /\ UNCHANGED <<controller, ser, exitStatus, grabbed, serOpen,
                   envVars, rdVars, txVars, sharedVars>>

\* main.py:266-267  the poll loop ends when the event thread is dead
PollEventThread ==
    /\ Running
    /\ mainPc = "poll"
    /\ ~EventThreadAlive
    /\ mainPc' = "ungrab"
    /\ UNCHANGED <<controller, ser, exitStatus, grabbed, serOpen,
                   envVars, rdVars, txVars, evVars, sharedVars>>

\* ungrab_controller re-raising every OSError, errno 19 included
UngrabRaises_Errno19Too == ~devOK \/ ~grabbed

\* ungrab_controller (main.py:63-70) on a device: errno 19 is swallowed when
\* the device is gone; releasing a grab that is not held is refused by the
\* kernel with another errno, which is re-raised.
UngrabRaises == devOK /\ ~grabbed

\* main.py:271-272  ungrab_controller(controller); controller = None
UngrabAfterSession ==
    /\ Running
    /\ mainPc = "ungrab"
    /\ IF UngrabRaises
       THEN /\ mainPc' = "oserr"
            /\ UNCHANGED <<controller, grabbed>>
       ELSE /\ grabbed' = FALSE
            /\ controller' = "None"
            /\ mainPc' = "top"
    /\ UNCHANGED <<ser, exitStatus, serOpen, envVars, rdVars, txVars,
                   evVars, sharedVars>>

\* main.py:282-286  except (OSError, SerialException): close and drop ser
OSErrorHandler ==
    /\ Running
    /\ mainPc = "oserr"
    /\ IF ser # "None"
       THEN /\ serOpen' = FALSE
            /\ ser' = "None"
       ELSE UNCHANGED <<ser, serOpen>>
    /\ mainPc' = "wait5"
    /\ UNCHANGED <<controller, exitStatus, grabbed, envVars, rdVars,
                   txVars, evVars, sharedVars>>

\* The link threads are dead (or were never started).
LinkThreadsDead ==
    /\ rdPc \in {"idle", "stopped", "done"}
    /\ txPc \in {"idle", "failed", "done"}

\* main.py:287  communication_stop.wait(5), then the next loop iteration.
\* The threads of the port closed at main.py:285 fail on their next read or
\* write, at most one 10 ms tick later (main.py:172, 216), so they are dead
\* long before the 5 s have passed.
BackoffWait5 ==
    /\ Running
    /\ mainPc = "wait5"
    /\ LinkThreadsDead
    /\ mainPc' = "top"
    /\ UNCHANGED <<controller, ser, exitStatus, grabbed, serOpen,
                   envVars, rdVars, txVars, evVars, sharedVars>>

\* SIGINT raises KeyboardInterrupt in the main thread.  Inside the try block
\* the handler at main.py:274-276 runs and sets communication_stop; inside
\* the OSError handler (main.py:283-287) nothing catches it and the process
\* dies with a traceback.
KeyboardInterrupt ==
    /\ Running
    /\ \/ /\ mainPc \in TryPcs
          /\ communication_stop' = TRUE
          /\ mainPc' = "kbd"
          /\ UNCHANGED exitStatus
       \/ /\ mainPc \in {"oserr", "wait5"}
          /\ Exit(1)
          /\ UNCHANGED communication_stop
    /\ UNCHANGED <<controller, ser, grabbed, serOpen, envVars, rdVars, txVars,
                   evVars, motor_speeds, emergency_stop, wireMag>>

\* ungrab_controller(controller) inside an except handler (main.py:277,
\* 291): with controller None the call None.ungrab() raises AttributeError;
\* that, like a re-raised OSError, escapes the handler.
CleanupRaises == controller = "None" \/ UngrabRaises

\* The rest of a handler that ends the loop (main.py:277-280, 291-294):
\* ungrab_controller(controller); if ser: ser.close(); break.  When the
\* ungrab raises, the process dies with a traceback (status 1) and the
\* handle is not closed; otherwise main returns with `status`.
Cleanup(status) ==
    IF CleanupRaises
    THEN /\ Exit(1)
         /\ UNCHANGED <<grabbed, serOpen>>
    ELSE /\ grabbed' = FALSE
         /\ serOpen' = IF ser # "None" THEN FALSE ELSE serOpen
         /\ Exit(status)

\* The status of a process whose main() returned normally.
ReturnStatus == 0

\* main.py:277-280  the rest of the KeyboardInterrupt handler
KbdCleanup ==
    /\ Running
    /\ mainPc = "kbd"
    /\ Cleanup(ReturnStatus)
    /\ UNCHANGED <<controller, ser, envVars, rdVars, txVars, evVars, sharedVars>>

\* main.py:289-294  except Exception: log, clean up, break
UnhandledCleanup ==
    /\ Running
    /\ mainPc = "unh"
    /\ Cleanup(ReturnStatus)
    /\ UNCHANGED <<controller, ser, envVars, rdVars, txVars, evVars, sharedVars>>

\* ------------------------------------- sabertooth_serial_reader thread
\* main.py:208  the loop head sees communication_stop set and returns
ReaderObserveStop ==
    /\ Running
    /\ rdPc = "run"
    /\ communication_stop
    /\ rdPc' = "done"
    /\ UNCHANGED <<mainVars, envVars, txVars, evVars, sharedVars>>

\* main.py:210-215  ser.readline() raises SerialException (always on a closed
\* port, possibly on an open one): the error is logged and the loop breaks.
ReaderReadError ==
    /\ Running
    /\ rdPc = "run"
    /\ rdPc' = "stopped"
    /\ UNCHANGED <<mainVars, envVars, txVars, evVars, sharedVars>>

\* ----------------------------------------------- motor_speed_sender thread
\* main.py:164-168  while not communication_stop.is_set(): if
\* emergency_stop.is_set(): motor_speeds[0] = motor_speeds[1] = 0
SenderLoop ==
    /\ Running
    /\ txPc = "loop"
    /\ IF communication_stop
       THEN /\ txPc' = "done"
            /\ UNCHANGED motor_speeds
       ELSE /\ txPc' = "read"
            /\ motor_speeds' = IF emergency_stop THEN <<0, 0>> ELSE motor_speeds
    /\ UNCHANGED <<mainVars, envVars, rdVars, txI, txPkt, evVars,
                   communication_stop, emergency_stop, wireMag>>

\* main.py:149-155 and 82-91  read motor_speeds[i], choose the command and
\* build the packet
SenderRead ==
    /\ Running
    /\ txPc = "read"
    /\ txPkt' = MakePacket(NIGHT_MODE, SABERTOOTH_ADDRESS,
                               MotorCommand(txI, motor_speeds[txI]),
                               Abs(motor_speeds[txI]))
    /\ txPc' = "check"
    /\ UNCHANGED <<mainVars, envVars, rdVars, txI, evVars, sharedVars>>

\* send_motor_speeds moves on to the next motor, or returns True to the
\* sender loop, which waits one tick (main.py:149, 159, 172).
SenderNext ==
    /\ txPkt' = NoPacket
    /\ txI' = IF txI = 1 THEN 2 ELSE 1
    /\ txPc' = IF txI = 1 THEN "read" ELSE "loop"

\* main.py:97-100  send_packet: with the flag set a non-zero packet is
\* dropped (return True), anything else goes on to the write
SenderCheck ==
    /\ Running
    /\ txPc = "check"
    /\ IF emergency_stop /\ txPkt[3] # 0
       THEN SenderNext
       ELSE /\ txPc' = "write"
            /\ UNCHANGED <<txI, txPkt>>
    /\ UNCHANGED <<mainVars, envVars, rdVars, evVars, sharedVars>>

\* main.py:103, 107-109 and 157-158, 170-171  ser.write(packet); a
\* SerialException (always on a closed port) makes send_packet return False
\* and the sender thread break out of its loop.
SenderWrite ==
    /\ Running
    /\ txPc = "write"
    /\ \/ /\ serOpen
          /\ wireMag' = txPkt[3]
          /\ txPc' = "flush"
          /\ UNCHANGED txPkt
       \/ /\ txPc' = "failed"
          /\ txPkt' = NoPacket
          /\ UNCHANGED wireMag
    /\ UNCHANGED <<mainVars, envVars, rdVars, txI, evVars,
                   motor_speeds, communication_stop, emergency_stop>>

\* main.py:104-109  ser.flush(); return True, or False on SerialException
SenderFlush ==
    /\ Running
    /\ txPc = "flush"
    /\ \/ /\ serOpen
          /\ SenderNext
       \/ /\ txPc' = "failed"
          /\ txPkt' = NoPacket
          /\ UNCHANGED txI
    /\ UNCHANGED <<mainVars, envVars, rdVars, evVars, sharedVars>>

\* --------------------------------------- process_controller_events thread
\* main.py:177  while not communication_stop.is_set()
EventLoopStart ==
    /\ Running
    /\ evPc = "start"
    /\ evPc' = IF communication_stop THEN "done" ELSE "read"
    /\ UNCHANGED <<evEvent, evK, evFrom, evSent, evResults, evLast,
                   mainVars, envVars, rdVars, txVars, sharedVars>>

\* main.py:179  controller.read_loop() blocks until the device has an event
EventArrives ==
    /\ Running
    /\ evPc = "read"
    /\ devOK
    /\ \E e \in Events : evEvent' = e
    /\ evSent' = <<>>
    /\ evResults' = <<>>
    /\ evLast' = "none"
    /\ evPc' = "handle"
    /\ UNCHANGED <<evK, evFrom, mainVars, envVars, rdVars, txVars, sharedVars>>

\* main.py:181-185  read_loop raises OSError with errno 19: the handler
\* calls emergency_shutoff and then breaks
ReadLoopDisconnected ==
    /\ Running
    /\ evPc = "read"
    /\ ~devOK
    /\ evFrom' = "disc"
    /\ evLast' = "disc"
    /\ evSent' = <<>>
    /\ evResults' = <<>>
    /\ evPc' = "es_set"
    /\ UNCHANGED <<evEvent, evK, mainVars, envVars, rdVars, txVars, sharedVars>>

\* main.py:186-187  any other OSError is re-raised and ends the thread
ReadLoopOSError ==
    /\ Running
    /\ evPc = "read"
    /\ devOK
    /\ evPc' = "crashed"
    /\ UNCHANGED <<evEvent, evK, evFrom, evSent, evResults, evLast,
                   mainVars, envVars, rdVars, txVars, sharedVars>>

\* handle_event without its early return
EventIgnored_Never == FALSE

\* main.py:114-115  if emergency_stop.is_set(): return
EventIgnored == emergency_stop

\* main.py:117-118
IsDriveAxis(e) == e.type = EV_ABS /\ e.code \in {ABS_Y, ABS_RY}

\* handle_event taking every menu-button event, releases too, for a press
IsMenuPress_AnyValue(e) == e.type = EV_KEY /\ e.code = KEY_MENU

\* main.py:129-131
IsMenuPress(e) == e.type = EV_KEY /\ e.code = KEY_MENU /\ e.value = 1

IsMenuRelease(e) == e.type = EV_KEY /\ e.code = KEY_MENU /\ e.value = 0

\* main.py:112-145  handle_event up to the call of emergency_shutoff;
\* evLast records the branch taken
HandleEvent ==
    /\ Running
    /\ evPc = "handle"
    /\ evEvent' = NoEvent
    /\ IF EventIgnored
       THEN /\ evLast' = "ignored"
            /\ evPc' = "read"
            /\ UNCHANGED <<motor_speeds, evFrom>>
       ELSE IF IsDriveAxis(evEvent)
       THEN /\ motor_speeds' = [motor_speeds EXCEPT
                                   ![AxisIndex(evEvent.code)] = AxisSpeed(evEvent.value)]
            /\ evLast' = "axis"
            /\ evPc' = "read"
            /\ UNCHANGED evFrom
       ELSE IF IsMenuPress(evEvent)
       THEN /\ evFrom' = "menu"
            /\ evLast' = "press"
            /\ evPc' = "es_set"
            /\ UNCHANGED motor_speeds
       ELSE /\ evLast' = IF IsMenuRelease(evEvent) THEN "release" ELSE "other"
            /\ evPc' = "read"
            /\ UNCHANGED <<motor_speeds, evFrom>>
    /\ UNCHANGED <<evK, evSent, evResults, mainVars, envVars, rdVars, txVars,
                   communication_stop, emergency_stop, wireMag>>

\* main.py:74  emergency_stop.set()
ShutoffSetFlag ==
    /\ Running
    /\ evPc = "es_set"
    /\ emergency_stop' = TRUE
    /\ evPc' = "es_zero"
    /\ UNCHANGED <<evEvent, evK, evFrom, evSent, evResults, evLast, mainVars, envVars,
                   rdVars, txVars, motor_speeds, communication_stop, wireMag>>

\* main.py:75  motor_speeds[0] = motor_speeds[1] = 0
ShutoffZero ==
    /\ Running
    /\ evPc = "es_zero"
    /\ motor_speeds' = <<0, 0>>
    /\ evK' = 1
    /\ evPc' = "write"
    /\ UNCHANGED <<evEvent, evFrom, evSent, evResults, evLast, mainVars, envVars,
                   rdVars, txVars, communication_stop, emergency_stop, wireMag>>

\* main.py:76-77  the packet of the k-th send_packet call of
\* emergency_shutoff
StopPacket(k) == MakePacket(NIGHT_MODE, SABERTOOTH_ADDRESS, StopCommand(k), 0)

\* main.py:76-78  emergency_shutoff sends two packets
LastStopPacket(k) == k = 2

\* After a send_packet call of emergency_shutoff returns: the second call,
\* or the return to handle_event (next event, main.py:132) or to the
\* disconnect handler (break, main.py:185).
ShutoffNext ==
    IF LastStopPacket(evK)
    THEN /\ evK' = 1
         /\ evFrom' = "none"
         /\ evPc' = IF evFrom = "menu" THEN "read" ELSE "done"
    ELSE /\ evK' = evK + 1
         /\ evPc' = "write"
         /\ UNCHANGED evFrom

\* emergency_shutoff giving up after a failed send_packet
ShutoffAfterFailure_Abort ==
    /\ evK' = 1
    /\ evFrom' = "none"
    /\ evPc' = IF evFrom = "menu" THEN "read" ELSE "done"

\* main.py:76-77  a False from send_packet is only stored in command0 or
\* command5; emergency_shutoff goes on as after a True
ShutoffAfterFailure == ShutoffNext

\* main.py:78  return command0 and command5
ShutoffResult(results) == results[1] /\ results[2]

\* main.py:97-109  send_packet for a stop packet: value is 0, so the check at
\* main.py:99 lets it through to ser.write; on SerialException it returns
\* False to emergency_shutoff.  evSent lists the packets handed to
\* ser.write, evResults the values send_packet returned (command0,
\* command5).
ShutoffWrite ==
    /\ Running
    /\ evPc = "write"
    /\ evSent' = Append(evSent, StopPacket(evK))
    /\ \/ /\ serOpen
          /\ wireMag' = StopPacket(evK)[3]
          /\ evPc' = "flush"
          /\ UNCHANGED <<evK, evFrom, evResults>>
       \/ /\ evResults' = Append(evResults, FALSE)
          /\ ShutoffAfterFailure
          /\ UNCHANGED wireMag
    /\ UNCHANGED <<evEvent, evLast, mainVars, envVars, rdVars, txVars,
                   motor_speeds, communication_stop, emergency_stop>>

\* main.py:104-109  ser.flush() of a stop packet, then return True; False
\* on SerialException
ShutoffFlush ==
    /\ Running
    /\ evPc = "flush"
    /\ \/ /\ serOpen
          /\ evResults' = Append(evResults, TRUE)
          /\ ShutoffNext
       \/ /\ evResults' = Append(evResults, FALSE)
          /\ ShutoffAfterFailure
    /\ UNCHANGED <<evEvent, evSent, evLast, mainVars, envVars, rdVars, txVars,
                   sharedVars>>

\* ------------------------------------------------------- specification
Coordinator ==
    \/ FindController
    \/ GrabController
    \/ BackoffWait1
    \/ ConnectSabertooth
    \/ StartReader
    \/ StartSender
    \/ StartEventThread
    \/ PollEventThread
    \/ UngrabAfterSession
    \/ OSErrorHandler
    \/ BackoffWait5
    \/ KbdCleanup
    \/ UnhandledCleanup

Reader == ReaderObserveStop \/ ReaderReadError

Sender ==
    \/ SenderLoop
    \/ SenderRead
    \/ SenderCheck
    \/ SenderWrite
    \/ SenderFlush

EventThread ==
    \/ EventLoopStart
    \/ ReadLoopDisconnected
    \/ HandleEvent
    \/ ShutoffSetFlag
    \/ ShutoffZero
    \/ ShutoffWrite
    \/ ShutoffFlush

Environment ==
    \/ Unplug
    \/ Replug
    \/ KeyboardInterrupt
    \/ EventArrives
    \/ ReadLoopOSError

Next ==
    \/ Coordinator
    \/ Reader
    \/ Sender
    \/ EventThread
    \/ Environment

Spec == Init /\ [][Next]_vars

\* ------------------------------------------- the axis pipeline alone
\* One drive-axis event with any raw value in 0..RawMax is being handled in
\* a running session (controller grabbed, link open, reader and sender
\* started, nothing written yet); then the transmitter runs.  This follows
\* a raw value through handle_event, send_motor_speeds and send_packet over
\* the whole raw range; the interleavings of the threads are those of Spec.
AxisEvents == {Event(EV_ABS, c, v) : c \in {ABS_Y, ABS_RY}, v \in 0..RawMax}

AxisInit ==
    /\ NIGHT_MODE \in BOOLEAN
    /\ mainPc = "poll"
    /\ controller = "dev"
    /\ ser = "port"
    /\ motor_speeds = <<0, 0>>
    /\ communication_stop = FALSE
    /\ emergency_stop = FALSE
    /\ exitStatus = -1
    /\ grabbed = TRUE
    /\ ctrlPresent = TRUE
    /\ devOK = TRUE
    /\ serOpen = TRUE
    /\ rdPc = "run"
    /\ txPc = "loop"
    /\ txI = 1
    /\ txPkt = NoPacket
    /\ evPc = "handle"
    /\ evEvent \in AxisEvents
    /\ evK = 1
    /\ evFrom = "none"
    /\ evSent = <<>>
    /\ evResults = <<>>
    /\ evLast = "none"
    /\ wireMag = -1

AxisSender == evPc = "read" /\ Sender

AxisNext == HandleEvent \/ AxisSender

AxisSpec == AxisInit /\ [][AxisNext]_vars

\* Scheduling: every thread that can take a step eventually takes one.  No
\* fairness is assumed of the environment (events, unplugging, signals,
\* I/O errors on an open port).
Fairness ==
    /\ WF_vars(Coordinator)
    /\ WF_vars(Sender)
    /\ WF_vars(EventThread)
    /\ WF_vars(ReaderObserveStop)
    /\ WF_vars(ReaderReadError /\ ~serOpen)

FairSpec == Spec /\ Fairness

\* ------------------------------------------------------------ properties
\* ser.write succeeded in this step, for the sender / the event thread
SenderWrites == txPc = "write" /\ txPc' = "flush"

ShutoffWrites == evPc = "write" /\ evPc' = "flush"

\* C1: once the emergency-stop flag is set, every packet written to the
\* serial handle, by either thread, has a zero magnitude byte.
C1_NoMotionPacketAfterEmergencyStop ==
    [][/\ (emergency_stop /\ SenderWrites) => txPkt[3] = 0
       /\ (emergency_stop /\ ShutoffWrites) => StopPacket(evK)[3] = 0]_vars

\* C2: the sender and the event thread's stop-packet send are never both
\* between ser.write and ser.flush of send_packet at the same time.
C2_WritersMutuallyExcluded == ~(txPc = "flush" /\ evPc = "flush")

\* The event loop runs on an open link.
Active == mainPc = "poll" /\ ser # "None"

\* A link task has stopped on a serial I/O error.
LinkTaskFailed == txPc = "failed" \/ rdPc = "stopped"

\* C3: when a link task stops on an I/O error while the coordinator is
\* Active, the coordinator eventually drops the handle and makes a new
\* connect attempt (unless the process ends first).
C3_LinkFaultLeadsToReconnect ==
    (Active /\ LinkTaskFailed) ~>
        (~Running \/ (mainPc = "conn" /\ ser = "None" /\ ~serOpen))

\* C4: when the event loop of a new controller session starts, the
\* emergency-stop flag is false.
C4_NewSessionResetsEmergencyStop ==
    (mainPc = "poll" /\ evPc = "start") => ~emergency_stop

\* The stopped state: flag set, both speeds zero.
Stopped == emergency_stop /\ motor_speeds = <<0, 0>>

\* emergency_shutoff returns in this step.
ShutoffReturns == evPc \in {"write", "flush"} /\ evPc' \in {"read", "done"}

\* C5: when emergency_shutoff returns the flag is set and both speeds are
\* zero, and no later step of any thread leaves that stopped state.
C5_StoppedIsAbsorbing ==
    [][/\ ShutoffReturns => Stopped'
       /\ Stopped => Stopped']_vars

\* An event was ignored after the stop while the sender transmits zeros.
C5_Witness ==
    /\ Stopped
    /\ evLast = "ignored"
    /\ txPc = "flush"
    /\ txPkt[3] = 0

\* C6: when the event thread is back in read_loop after a menu press that
\* it did not ignore, the flag is set, both speeds are zero and the thread
\* has handed exactly two packets to ser.write, both with magnitude 0 and
\* this address, one for each motor; after a menu release the flag is
\* still unset and nothing was handed to ser.write.
C6_MenuPressStops ==
    /\ (evPc = "read" /\ evLast = "press") =>
          /\ Stopped
          /\ Len(evSent) = 2
          /\ \A k \in 1..2 : /\ evSent[k][1] = SABERTOOTH_ADDRESS
                             /\ evSent[k][3] = 0
                             /\ evSent[k][4] = (SABERTOOTH_ADDRESS + evSent[k][2]) % 128
          /\ {MotorOf(evSent[k][2]) : k \in 1..2} = {1, 2}
    /\ evLast = "release" => (~emergency_stop /\ evSent = <<>>)

\* A menu press has been handled and both stop packets reached the wire.
C6_Witness ==
    /\ evPc = "read"
    /\ evLast = "press"
    /\ Len(evSent) = 2
    /\ serOpen
    /\ wireMag = 0

ReaderTerminated == rdPc \in {"idle", "stopped", "done"}

SenderTerminated == txPc \in {"idle", "failed", "done"}

EventLoopTerminated == evPc \in {"idle", "crashed", "done"}

\* C7: once the shutdown has been signalled and the process has ended, each
\* of the three activities had observed the signal and returned.
C7_ShutdownStopsAllActivities ==
    (communication_stop /\ ~Running) =>
        (ReaderTerminated /\ SenderTerminated /\ EventLoopTerminated)

\* The KeyboardInterrupt handler ends the process in this step.
InterruptExit == mainPc = "kbd" /\ mainPc' = "exited"

\* C8: when the interrupt handler closes a live link, the last packet on
\* the wire is a zero-speed stop command.
C8_StopSentBeforeClose ==
    [][(InterruptExit /\ serOpen) => wireMag' = 0]_vars

\* C9: the interrupt handler always ends the process with status 0, the
\* grab released and the handle closed.
C9_InterruptExitsGracefully ==
    [][InterruptExit => (exitStatus' = 0 /\ ~grabbed' /\ ~serOpen')]_vars

\* C10: the handler of an unhandled fault ends the process with a non-zero
\* status, the grab released and the handle closed.
C10_UnhandledFaultExitsNonZero ==
    [][(mainPc = "unh" /\ mainPc' = "exited") =>
          (exitStatus' # 0 /\ ~grabbed' /\ ~serOpen')]_vars

\* ------------------------------------------------------------------ C11
\* handle_event stores a speed for left-stick Y, raw value 0, in this step.
HandlesLeftFullBack ==
    /\ evPc = "handle" /\ evPc' = "read"
    /\ evEvent = Event(EV_ABS, ABS_Y, 0)
    /\ ~emergency_stop

\* The transmitter builds the left motor's packet from speed -126 in this
\* step.
SenderTakesLeftFullBack ==
    /\ txPc = "read" /\ txPc' = "check"
    /\ txI = 1
    /\ motor_speeds[1] = -126

\* C11 as stated: with reduced-power mode off, handling the axis event
\* (left-stick Y, raw 0) leaves the left speed at -126, and the packet the
\* transmitter then emits for the left motor is [address, 5, 126, checksum].
C11_LeftFullBackPacketIsCommand5 ==
    [][~NIGHT_MODE =>
          /\ HandlesLeftFullBack => motor_speeds'[1] = -126
          /\ SenderTakesLeftFullBack =>
                txPkt' = <<SABERTOOTH_ADDRESS, 5, 126,
                           (SABERTOOTH_ADDRESS + 5 + 126) % 128>>]_vars

\* C11 amended: with reduced-power mode off, handling the axis event
\* (left-stick Y, raw 0) leaves the left speed at -126, and the packet the
\* transmitter then emits for the left motor is [address, 4, 126, checksum].
C11_LeftFullBackPacketIsCommand4 ==
    [][~NIGHT_MODE =>
          /\ HandlesLeftFullBack => motor_speeds'[1] = -126
          /\ SenderTakesLeftFullBack =>
                txPkt' = <<SABERTOOTH_ADDRESS, 4, 126,
                           (SABERTOOTH_ADDRESS + 4 + 126) % 128>>]_vars

\* The left motor's packet for speed -126 has been written and is being
\* flushed, the speed having come from an axis event.
C11_Witness ==
    /\ ~NIGHT_MODE
    /\ evLast = "axis"
    /\ motor_speeds[1] = -126
    /\ txPc = "flush" /\ txI = 1
    /\ txPkt = <<SABERTOOTH_ADDRESS, 4, 126, 2>>
    /\ wireMag = 126

\* ------------------------------------------------------------------ C12
\* handle_event stores the speed of a drive-axis event in this step.
HandlesDriveAxis ==
    /\ evPc = "handle" /\ evPc' = "read"
    /\ evEvent.type = EV_ABS
    /\ evEvent.code \in {ABS_Y, ABS_RY}
    /\ ~emergency_stop

\* The speed the step stores: motor_speeds[0] for ABS_Y, [1] for ABS_RY.
StoredSpeed == motor_speeds'[IF evEvent.code = ABS_Y THEN 1 ELSE 2]

\* (raw - 32767) * 126, the numerator of the scaled value over 32767.
ScaledNumerator == (evEvent.value - 32767) * 126

\* n / d rounded to the nearest integer (d is odd: no ties).
NearestInt(n, d) ==
    IF n >= 0 THEN (2 * n + d) \div (2 * d) ELSE -((2 * (-n) + d) \div (2 * d))

\* x is n / d with its fraction dropped.
IsTruncationOf(x, n, d) ==
    /\ Abs(x) * d <= Abs(n)
    /\ Abs(n) < (Abs(x) + 1) * d
    /\ (x > 0 => n > 0)
    /\ (x < 0 => n < 0)

\* C12 as stated: for every raw value of a drive-axis event handled with the
\* flag unset, the speed before the dead zone is the scaled value rounded to
\* the nearest integer (so the stored speed is that, or 0 inside the dead
\* zone); raw 0 gives -126 and raw 65534 gives +126.
C12_ScalingRoundsToNearest ==
    [][HandlesDriveAxis =>
          /\ StoredSpeed =
                IF Abs(NearestInt(ScaledNumerator, 32767)) < DEAD_ZONE
                THEN 0 ELSE NearestInt(ScaledNumerator, 32767)
          /\ evEvent.value = 0 => StoredSpeed = -126
          /\ evEvent.value = 65534 => StoredSpeed = 126]_vars

\* C12 amended: for every raw value of a drive-axis event handled with the
\* flag unset, the speed before the dead zone is the scaled value truncated
\* toward zero (so the stored speed is that, or 0 inside the dead zone);
\* raw 0 gives -126 and raw 65534 gives +126.
C12_ScalingTruncatesTowardZero ==
    [][HandlesDriveAxis =>
          /\ IF Abs(ScaledNumerator) < DEAD_ZONE * 32767
             THEN StoredSpeed = 0
             ELSE IsTruncationOf(StoredSpeed, ScaledNumerator, 32767)
          /\ evEvent.value = 0 => StoredSpeed = -126
          /\ evEvent.value = 65534 => StoredSpeed = 126]_vars

\* A left speed of -125 has been stored: the scaled value lay in
\* (-126, -125], where dropping the fraction and rounding to nearest part.
C12_Witness ==
    /\ evPc = "read"
    /\ evLast = "axis"
    /\ motor_speeds = <<-125, 0>>
    /\ ~emergency_stop

\* ------------------------------------------------------------------ C13
\* The fourth byte of a packet is the 7-bit sum of its first three.
ChecksumMatches(packet) ==
    packet[4] = (packet[1] + packet[2] + packet[3]) % 128

\* C13: every packet written to the serial handle, by the transmitter or by
\* emergency_shutoff, carries as fourth byte (address + command + magnitude)
\* mod 128 of the three bytes actually emitted, also when reduced-power mode
\* lowered the magnitude.
C13_ChecksumCoversEmittedBytes ==
    [][/\ SenderWrites => ChecksumMatches(txPkt)
       /\ ShutoffWrites => ChecksumMatches(evSent'[Len(evSent')])]_vars

\* In reduced-power mode the transmitter has written a packet whose
\* magnitude was lowered from 126 to 20, with the checksum of the 20.
C13_Witness ==
    /\ NIGHT_MODE
    /\ txPc = "flush"
    /\ txI = 1
    /\ motor_speeds[1] = -126
    /\ txPkt = <<SABERTOOTH_ADDRESS, 4, 20, 24>>
    /\ wireMag = 20

\* ------------------------------------------------------------------ C14
\* The transmitter builds the packet of a speed above 20 in this step.
SenderTakesFastSpeed ==
    /\ txPc = "read" /\ txPc' = "check"
    /\ Abs(motor_speeds[txI]) > 20

\* C14: whatever axis events arrive, each motor speed stays in -126..126 and
\* the magnitude byte of every packet written is in 0..126; in reduced-power
\* mode a magnitude above 20 is emitted as exactly 20, so no written packet
\* carries more than 20.
C14_SpeedAndMagnitudeBounded ==
    [][/\ \A i \in 1..2 : motor_speeds'[i] \in -126..126
       /\ SenderWrites => txPkt[3] \in 0..126
       /\ ShutoffWrites => evSent'[Len(evSent')][3] \in 0..126
       /\ wireMag' \in -1..126
       /\ NIGHT_MODE =>
             /\ SenderTakesFastSpeed => txPkt'[3] = 20
             /\ SenderWrites => txPkt[3] <= 20
             /\ wireMag' <= 20]_vars

\* In reduced-power mode a full-scale speed stored from an axis event has
\* gone out on the wire as magnitude 20.
C14_Witness ==
    /\ NIGHT_MODE
    /\ evLast = "axis"
    /\ \E i \in 1..2 : Abs(motor_speeds[i]) = 126
    /\ Abs(motor_speeds[txI]) > 20
    /\ txPc = "flush"
    /\ txPkt[3] = 20
    /\ wireMag = 20

\* ------------------------------------------------------------------ C15
\* The event loop has ended after read_loop raised errno 19.
DisconnectHandled == evPc = "done" /\ evLast = "disc"

\* C15: when the controller is removed mid-session (errno 19 from read_loop
\* while Active), emergency_shutoff runs (flag set, both speeds zero, both
\* stop packets handed to the serial handle) and the event loop ends; the
\* coordinator then releases the controller binding, keeps the open serial
\* link and leaves its transmitter and log-reader alone, and goes back to
\* looking for a controller.
C15_DisconnectStopsAndSearchesAgain ==
    [][/\ (evLast = "disc" /\ ShutoffReturns) =>
             /\ evPc' = "done"
             /\ Stopped'
             /\ Len(evSent') = 2
             /\ \A k \in 1..2 : evSent'[k][3] = 0
       /\ (DisconnectHandled /\ mainPc = "ungrab"
                             /\ mainPc' \notin {"ungrab", "kbd"}) =>
             /\ mainPc' = "top"
             /\ controller' = "None"
             /\ ~grabbed'
             /\ ser' = "port" /\ serOpen'
             /\ UNCHANGED <<rdPc, txPc>>
       /\ (DisconnectHandled /\ mainPc = "top" /\ controller = "None"
                             /\ mainPc' \notin {"top", "kbd"}) =>
             /\ mainPc' \in {"grab", "wait1"}
             /\ ser' = "port" /\ serOpen'
             /\ UNCHANGED <<rdPc, txPc>>]_vars

\* After a disconnect the coordinator is searching again, without a
\* controller, while the link is open, the log-reader runs and the
\* transmitter has just written a zero packet.
C15_Witness ==
    /\ DisconnectHandled
    /\ mainPc = "wait1"
    /\ controller = "None" /\ ~grabbed
    /\ ser = "port" /\ serOpen
    /\ rdPc = "run"
    /\ txPc = "flush"
    /\ Stopped
    /\ Len(evSent) = 2
    /\ wireMag = 0

\* ------------------------------------------------------------------ C16
\* A send_packet call of the last emergency_shutoff returned False.
StopWriteFailed == \E k \in 1..Len(evResults) : ~evResults[k]

\* C16: a stop-packet write that fails during emergency_shutoff is surfaced
\* at once as a fault ending the session that owns the serial handle: after
\* a menu press the event loop does not go back to reading events, and after
\* a disconnect the coordinator does not go back to searching with the same
\* link still held.
C16_StopWriteFailureEndsSession ==
    /\ ~(StopWriteFailed /\ evLast = "press" /\ evPc = "read")
    /\ ~(StopWriteFailed /\ evLast = "disc" /\ evPc = "done"
                         /\ mainPc = "top" /\ ser = "port")

\* ------------------------------------------------------------------ C17
\* The coordinator's lookup of the controller fails in this step.
FindFails ==
    /\ mainPc = "top" /\ mainPc' \notin {"top", "kbd"}
    /\ controller = "None"
    /\ ~ctrlPresent

\* The coordinator's attempt to open the serial link fails in this step.
ConnectFails ==
    /\ mainPc = "conn" /\ mainPc' \notin {"conn", "kbd"}
    /\ ser = "None" /\ ser' = "None"

\* C17: after a failed find_controller or connect_sabertooth the coordinator
\* keeps what it held (no controller, resp. the controller and no link) and
\* goes into its backoff wait, and that wait is left only for the next loop
\* iteration or by an interrupt: no two lookups of the same resource without
\* a wait between them.
C17_FailedLookupBacksOff ==
    [][/\ FindFails =>
             /\ mainPc' = "wait1"
             /\ controller' = "None" /\ ser' = ser
       /\ ConnectFails =>
             /\ mainPc' = "wait1"
             /\ controller = "dev" /\ controller' = "dev"
             /\ grabbed' = grabbed
       /\ (mainPc = "wait1" /\ mainPc' # "wait1") =>
             /\ mainPc' \in {"top", "kbd"}
             /\ UNCHANGED <<controller, ser, grabbed>>]_vars

\* The coordinator waits after a failed connect, the grabbed controller
\* still held.
C17_Witness ==
    /\ mainPc = "wait1"
    /\ controller = "dev" /\ grabbed
    /\ ser = "None" /\ ~serOpen

\* ------------------------------------------------------------------ C18
\* handle_event returns in this step from an event that is neither a
\* left-Y/right-Y axis event nor a menu press.
HandlesOtherEvent ==
    /\ evPc = "handle" /\ evPc' # "handle"
    /\ ~(evEvent.type = EV_ABS /\ evEvent.code \in {ABS_Y, ABS_RY})
    /\ ~(evEvent.type = EV_KEY /\ evEvent.code = KEY_MENU /\ evEvent.value = 1)

\* C18: handling an event that is neither a left-Y/right-Y axis event nor a
\* menu press (other axes and keys, menu release, sync, misc, force
\* feedback, unknown types) leaves both speeds and the flag unchanged,
\* hands nothing to the serial handle and raises no error: the event loop
\* goes on to the next event.
C18_OtherEventsChangeNothing ==
    [][HandlesOtherEvent =>
          /\ evPc' = "read"
          /\ UNCHANGED <<motor_speeds, emergency_stop, evSent, wireMag>>
          /\ UNCHANGED <<mainPc, exitStatus>>]_vars

\* Such an event has been handled while the robot was driving: speeds and
\* flag are as the axis events before it left them.
C18_Witness ==
    /\ evPc = "read"
    /\ evLast \in {"other", "release"}
    /\ evSent = <<>>
    /\ motor_speeds = <<-126, 126>>
    /\ ~emergency_stop

\* ------------------------------------------------------------------ C19
\* C19: whenever the event loop is reading or handling events of a device
\* that is there, while the coordinator polls it, the coordinator holds the
\* exclusive grab on that device, also after grab() raised OSError and the
\* coordinator came back from its backoff wait.
C19_EventLoopHoldsGrab ==
    (Running /\ mainPc = "poll" /\ evPc \in {"read", "handle"} /\ devOK)
        => grabbed

\* ------------------------------------------------------------------ C20
\* C20: when emergency_shutoff returns it has handed both stop packets to
\* the serial handle, command 0 then command 5 with magnitude 0, whether or
\* not the first write failed, and the value it returns is True only if both
\* send_packet calls returned True.
C20_BothStopWritesAttempted ==
    [][ShutoffReturns =>
          /\ evSent' = <<<<SABERTOOTH_ADDRESS, 0, 0, SABERTOOTH_ADDRESS % 128>>,
                         <<SABERTOOTH_ADDRESS, 5, 0,
                           (SABERTOOTH_ADDRESS + 5) % 128>>>>
          /\ Len(evResults') = 2
          /\ ShutoffResult(evResults') =>
                (evResults'[1] /\ evResults'[2])
          /\ (~evResults'[1] \/ ~evResults'[2]) =>
                ~ShutoffResult(evResults')]_vars

\* A menu press whose first stop packet failed and whose second one was
\* written: emergency_shutoff has returned False.
C20_Witness ==
    /\ evPc = "read"
    /\ evLast = "press"
    /\ Len(evSent) = 2
    /\ evResults = <<FALSE, TRUE>>
    /\ ~ShutoffResult(evResults)
    /\ wireMag = 0

====
